---- MODULE Spec2Model ----
(***************************************************************************)
(* A model of roar-tracer (src/tracer/src/main.rs): the ptrace event loop  *)
(* (run_tracer, trace_loop), the ptrace-event handler and the syscall      *)
(* semantics engine, together with the part of the kernel that decides     *)
(* which stop waitpid may report next.                                     *)
(***************************************************************************)
EXTENDS Integers, Sequences, FiniteSets, TLC

(***************************************************************************)
(* Option<T>: None is the empty sequence, Some(x) the one-element one.     *)
(***************************************************************************)
None == << >>
Some(x) == << x >>
IsSome(o) == o # None
Unwrap(o) == o[1]

(***************************************************************************)
(* HashMap: a function whose DOMAIN is the set of keys present.            *)
(***************************************************************************)
EmptyMap == [k \in {} |-> None]
MapGet(m, k) == IF k \in DOMAIN m THEN Some(m[k]) ELSE None
MapInsert(m, k, v) == [x \in (DOMAIN m) \cup {k} |-> IF x = k THEN v ELSE m[x]]
MapRemove(m, k) == [x \in (DOMAIN m) \ {k} |-> m[x]]
MapValues(m) == {m[k] : k \in DOMAIN m}

(***************************************************************************)
(* A 64-bit register is kept as its two 32-bit halves, each read as an     *)
(* i32: hi = 0 and lo = -1 is 0x00000000FFFFFFFF, hi = -1 and lo = -1 is   *)
(* 0xFFFFFFFFFFFFFFFF.  The casts of the source act on the halves.         *)
(***************************************************************************)
U64(hi, lo) == [hi |-> hi, lo |-> lo]
U(n) == U64(0, n)
SignExt(n) == U64(IF n < 0 THEN -1 ELSE 0, n)
as_i32(r) == r.lo
i64_nonneg(r) == r.hi >= 0
i64_is_zero(r) == r.hi = 0 /\ r.lo = 0

\* Syscall numbers for x86_64
SYS_READ == 0
SYS_WRITE == 1
SYS_OPEN == 2
SYS_CLOSE == 3
SYS_MMAP == 9
SYS_PREAD64 == 17
SYS_PWRITE64 == 18
SYS_READV == 19
SYS_WRITEV == 20
SYS_SENDFILE == 40
SYS_RENAME == 82
SYS_OPENAT == 257
SYS_RENAMEAT == 264
SYS_PREADV == 295
SYS_PWRITEV == 296
SYS_RENAMEAT2 == 316
SYS_COPY_FILE_RANGE == 326
SYS_PREADV2 == 327
SYS_PWRITEV2 == 328

\* libc::PTRACE_EVENT_*
PTRACE_EVENT_FORK == 1
PTRACE_EVENT_VFORK == 2
PTRACE_EVENT_CLONE == 3
PTRACE_EVENT_EXEC == 4

(***************************************************************************)
(* Paths are sequences of components; an absolute path starts with the     *)
(* component "/".                                                          *)
(***************************************************************************)
starts_with_slash(path) == Len(path) > 0 /\ path[1] = "/"

\* TracerState::new
TracerState_new ==
  [ processes     |-> EmptyMap,
    fd_table      |-> EmptyMap,
    in_syscall    |-> EmptyMap,
    pending_opens |-> EmptyMap,
    active_pids   |-> {},
    opened_files  |-> {},
    read_files    |-> {},
    written_files |-> {} ]

(***************************************************************************)
(* read_string_from_tracee: mem is the tracee's memory, a map from the     *)
(* addresses that hold a readable NUL-terminated UTF-8 string to it.       *)
(***************************************************************************)
read_string_from_tracee(mem, addr) ==
  IF addr = U(0) THEN None
  ELSE IF addr.hi = 0 /\ addr.lo \in DOMAIN mem THEN Some(mem[addr.lo])
  ELSE None

\* resolve_path without the join: a relative path whose canonicalize fails
\* is returned as it came.
resolve_path_unjoined(path, fs) ==
  IF starts_with_slash(path) THEN path
  ELSE IF IsSome(fs.cwd) /\ IsSome(fs.canon) THEN Unwrap(fs.canon)
  ELSE path

(***************************************************************************)
(* resolve_path: fs is what the file system answers for this PID:          *)
(* fs.cwd = read_link("/proc/<pid>/cwd") and fs.canon = canonicalize of    *)
(* the joined path, each None when the call fails.                         *)
(***************************************************************************)
resolve_path(path, fs) ==
  IF starts_with_slash(path) THEN path
  ELSE IF IsSome(fs.cwd)
       THEN LET full_path == Unwrap(fs.cwd) \o path
            IN  IF IsSome(fs.canon) THEN Unwrap(fs.canon) ELSE full_path
       ELSE path

(***************************************************************************)
(* capture_process_info: proc is what /proc/<pid>/cmdline and              *)
(* /proc/<pid>/environ hold when they are read.                            *)
(***************************************************************************)
capture_process_info(pid, state, parent_pid, proc) ==
  [state EXCEPT !.processes =
     MapInsert(@, pid, [ pid        |-> pid,
                         parent_pid |-> parent_pid,
                         command    |-> proc.command,
                         env        |-> proc.env ])]

clone_fd_table(parent_pid, child_pid, state) ==
  LET entries == {k \in DOMAIN state.fd_table : k[1] = parent_pid}
  IN  [state EXCEPT !.fd_table =
         [k \in (DOMAIN @) \cup {<<child_pid, e[2]>> : e \in entries} |->
            IF k[1] = child_pid /\ <<parent_pid, k[2]>> \in entries
            THEN @[<<parent_pid, k[2]>>]
            ELSE @[k]]]

(***************************************************************************)
(* The syscall semantics engine.  os is what the operating system answers  *)
(* about the tracee while the stop is handled: os.mem its memory, os.cwd   *)
(* and os.canon the file-system answers resolve_path asks for.             *)
(***************************************************************************)
\* InsertPath that records nothing at entry.
InsertPath_deferred(set, o) == set

InsertPath(set, o) == IF IsSome(o) THEN set \cup {Unwrap(o)} ELSE set

ReadClass == {SYS_READ, SYS_PREAD64, SYS_READV, SYS_PREADV, SYS_PREADV2}
WriteClass == {SYS_WRITE, SYS_PWRITE64, SYS_WRITEV, SYS_PWRITEV, SYS_PWRITEV2}

entry_open(pid, path_ptr, flags, state, os) ==
  LET path == read_string_from_tracee(os.mem, path_ptr)
  IN  IF IsSome(path)
      THEN [state EXCEPT !.pending_opens =
              MapInsert(@, pid, <<resolve_path(Unwrap(path), os), flags>>)]
      ELSE state

\* entry_rename taking the renamed file for read as well.
entry_rename_read(pid, newpath_ptr, state, os) ==
  LET newpath == read_string_from_tracee(os.mem, newpath_ptr)
  IN  IF IsSome(newpath)
      THEN [state EXCEPT
              !.written_files = @ \cup {resolve_path(Unwrap(newpath), os)},
              !.read_files = @ \cup {resolve_path(Unwrap(newpath), os)}]
      ELSE state

entry_rename(pid, newpath_ptr, state, os) ==
  LET newpath == read_string_from_tracee(os.mem, newpath_ptr)
  IN  IF IsSome(newpath)
      THEN [state EXCEPT !.written_files =
              @ \cup {resolve_path(Unwrap(newpath), os)}]
      ELSE state

\* entry_mmap without the MAP_SHARED test: every writable mapping of a known
\* fd counts as a write.
entry_mmap_private_written(pid, regs, state) ==
  LET path == MapGet(state.fd_table, <<pid, as_i32(regs.r8)>>)
  IN  IF i64_nonneg(regs.r8) /\ IsSome(path)
      THEN [state EXCEPT
              !.read_files =
                IF (regs.rdx.lo % 2) # 0 THEN @ \cup {Unwrap(path)} ELSE @,
              !.written_files =
                IF ((regs.rdx.lo \div 2) % 2) # 0 THEN @ \cup {Unwrap(path)} ELSE @]
      ELSE state

entry_mmap(pid, regs, state) ==
  LET fd == regs.r8
      prot == regs.rdx
      flags == regs.r10
  IN  IF i64_nonneg(fd)
      THEN LET path == MapGet(state.fd_table, <<pid, as_i32(fd)>>)
               is_shared == (flags.lo % 2) # 0
           IN  IF IsSome(path)
               THEN [state EXCEPT
                       !.read_files =
                         IF (prot.lo % 2) # 0 THEN @ \cup {Unwrap(path)} ELSE @,
                       !.written_files =
                         IF is_shared /\ ((prot.lo \div 2) % 2) # 0
                         THEN @ \cup {Unwrap(path)} ELSE @]
               ELSE state
      ELSE state

\* handle_syscall_entry with the two descriptors of sendfile exchanged:
\* out_fd (rdi) taken for the source, in_fd (rsi) for the destination.
handle_syscall_entry_swapped(pid, syscall_num, regs, state, os) ==
  CASE syscall_num = U(SYS_OPEN) ->
         entry_open(pid, regs.rdi, regs.rsi, state, os)
    [] syscall_num = U(SYS_OPENAT) ->
         entry_open(pid, regs.rsi, regs.rdx, state, os)
    [] syscall_num \in {U(SYS_SENDFILE), U(SYS_COPY_FILE_RANGE)} ->
         [state EXCEPT
            !.read_files =
              InsertPath(@, MapGet(state.fd_table, <<pid, as_i32(regs.rdi)>>)),
            !.written_files =
              InsertPath(@, MapGet(state.fd_table, <<pid, as_i32(regs.rsi)>>))]
    [] OTHER -> state

handle_syscall_entry(pid, syscall_num, regs, state, os) ==
  CASE syscall_num = U(SYS_OPEN) ->
         entry_open(pid, regs.rdi, regs.rsi, state, os)
    [] syscall_num = U(SYS_OPENAT) ->
         entry_open(pid, regs.rsi, regs.rdx, state, os)
    [] syscall_num.hi = 0 /\ syscall_num.lo \in ReadClass ->
         [state EXCEPT !.read_files =
            InsertPath(@, MapGet(state.fd_table, <<pid, as_i32(regs.rdi)>>))]
    [] syscall_num.hi = 0 /\ syscall_num.lo \in WriteClass ->
         [state EXCEPT !.written_files =
            InsertPath(@, MapGet(state.fd_table, <<pid, as_i32(regs.rdi)>>))]
    [] syscall_num = U(SYS_SENDFILE) ->
         [state EXCEPT
            !.read_files =
              InsertPath(@, MapGet(state.fd_table, <<pid, as_i32(regs.rsi)>>)),
            !.written_files =
              InsertPath(@, MapGet(state.fd_table, <<pid, as_i32(regs.rdi)>>))]
    [] syscall_num = U(SYS_COPY_FILE_RANGE) ->
         [state EXCEPT
            !.read_files =
              InsertPath(@, MapGet(state.fd_table, <<pid, as_i32(regs.rdi)>>)),
            !.written_files =
              InsertPath(@, MapGet(state.fd_table, <<pid, as_i32(regs.r8)>>))]
    [] syscall_num = U(SYS_MMAP) ->
         entry_mmap(pid, regs, state)
    [] syscall_num = U(SYS_RENAME) ->
         entry_rename(pid, regs.rsi, state, os)
    [] syscall_num \in {U(SYS_RENAMEAT), U(SYS_RENAMEAT2)} ->
         entry_rename(pid, regs.r10, state, os)
    [] OTHER -> state

\* handle_syscall_exit without the test of the return value: a failed open
\* is recorded like a successful one.
handle_syscall_exit_unchecked(pid, syscall_num, regs, state) ==
  IF syscall_num \in {U(SYS_OPEN), U(SYS_OPENAT)} /\ pid \in DOMAIN state.pending_opens
  THEN LET path == state.pending_opens[pid][1]
       IN  [state EXCEPT
              !.pending_opens = MapRemove(@, pid),
              !.fd_table = MapInsert(@, <<pid, as_i32(regs.rax)>>, path),
              !.opened_files = @ \cup {path}]
  ELSE state

\* handle_syscall_exit keeping only the path opened last in opened_files.
handle_syscall_exit_last_only(pid, syscall_num, regs, state) ==
  IF /\ syscall_num \in {U(SYS_OPEN), U(SYS_OPENAT)}
     /\ pid \in DOMAIN state.pending_opens
     /\ i64_nonneg(regs.rax)
  THEN LET path == state.pending_opens[pid][1]
       IN  [state EXCEPT
              !.pending_opens = MapRemove(@, pid),
              !.fd_table = MapInsert(@, <<pid, as_i32(regs.rax)>>, path),
              !.opened_files = {path}]
  ELSE [state EXCEPT !.pending_opens = MapRemove(@, pid)]

\* handle_syscall_exit with one fd table shared by all traced processes: a
\* successful open enters its row under every active PID.
handle_syscall_exit_shared(pid, syscall_num, regs, state) ==
  IF /\ syscall_num \in {U(SYS_OPEN), U(SYS_OPENAT)}
     /\ pid \in DOMAIN state.pending_opens
     /\ i64_nonneg(regs.rax)
  THEN LET path == state.pending_opens[pid][1]
           keys == {<<p, as_i32(regs.rax)>> : p \in state.active_pids \cup {pid}}
       IN  [state EXCEPT
              !.pending_opens = MapRemove(@, pid),
              !.fd_table = [k \in DOMAIN @ \cup keys |-> IF k \in keys THEN path ELSE @[k]],
              !.opened_files = @ \cup {path}]
  ELSE [state EXCEPT !.pending_opens = MapRemove(@, pid)]

\* handle_syscall_exit that forgets a descriptor when close returns.
handle_syscall_exit_closing(pid, syscall_num, regs, state) ==
  IF syscall_num = U(SYS_CLOSE)
  THEN [state EXCEPT !.fd_table = MapRemove(@, <<pid, as_i32(regs.rdi)>>)]
  ELSE IF /\ syscall_num \in {U(SYS_OPEN), U(SYS_OPENAT)}
          /\ pid \in DOMAIN state.pending_opens
          /\ i64_nonneg(regs.rax)
       THEN LET path == state.pending_opens[pid][1]
            IN  [state EXCEPT
                   !.pending_opens = MapRemove(@, pid),
                   !.fd_table = MapInsert(@, <<pid, as_i32(regs.rax)>>, path),
                   !.opened_files = @ \cup {path}]
       ELSE IF syscall_num \in {U(SYS_OPEN), U(SYS_OPENAT)}
            THEN [state EXCEPT !.pending_opens = MapRemove(@, pid)]
            ELSE state

handle_syscall_exit(pid, syscall_num, regs, state) ==
  LET ret_val == regs.rax
  IN  CASE syscall_num \in {U(SYS_OPEN), U(SYS_OPENAT)} ->
             IF i64_nonneg(ret_val)
             THEN LET pending == MapGet(state.pending_opens, pid)
                  IN  IF IsSome(pending)
                      THEN LET path == Unwrap(pending)[1]
                               fd == as_i32(ret_val)
                           IN  [state EXCEPT
                                  !.pending_opens = MapRemove(@, pid),
                                  !.fd_table = MapInsert(@, <<pid, fd>>, path),
                                  !.opened_files = @ \cup {path}]
                      ELSE state
             ELSE [state EXCEPT !.pending_opens = MapRemove(@, pid)]
        [] syscall_num = U(SYS_CLOSE) -> state
        [] OTHER -> state

(***************************************************************************)
(* handle_syscall: getregs is the result of ptrace::getregs, None when it  *)
(* fails.                                                                  *)
(***************************************************************************)
handle_syscall(pid, getregs, state, os) ==
  IF ~IsSome(getregs) THEN state
  ELSE LET regs == Unwrap(getregs)
           syscall_num == regs.orig_rax
           is_entry == ~(IF pid \in DOMAIN state.in_syscall
                         THEN state.in_syscall[pid] ELSE FALSE)
           toggled == [state EXCEPT !.in_syscall = MapInsert(@, pid, is_entry)]
       IN  IF is_entry
           THEN handle_syscall_entry(pid, syscall_num, regs, toggled, os)
           ELSE handle_syscall_exit(pid, syscall_num, regs, toggled)

(***************************************************************************)
(* handle_ptrace_event: getevent is the result of ptrace::getevent (the    *)
(* new child's PID), None when it fails; proc is what /proc holds for the  *)
(* PID whose ProcessInfo is captured.                                      *)
(***************************************************************************)
handle_ptrace_event(pid, event, state, getevent, proc) ==
  CASE event \in {PTRACE_EVENT_FORK, PTRACE_EVENT_VFORK, PTRACE_EVENT_CLONE} ->
         IF IsSome(getevent)
         THEN LET child_pid == Unwrap(getevent)
                  added == [state EXCEPT !.active_pids = @ \cup {child_pid}]
              IN  capture_process_info(child_pid,
                                       clone_fd_table(pid, child_pid, added),
                                       Some(pid), proc)
         ELSE state
    [] event = PTRACE_EVENT_EXEC ->
         LET parent == IF pid \in DOMAIN state.processes
                       THEN state.processes[pid].parent_pid ELSE None
         IN  capture_process_info(pid, state, parent, proc)
    [] OTHER -> state

(***************************************************************************)
(* Bounds of the model and the inputs the environment draws from.          *)
(***************************************************************************)
\* The largest PID the kernel hands out (its pid_max), the number of
\* fork-family syscalls the traced tree makes, and the number of syscalls
\* it makes in all.
MaxPid == 3
MaxForks == 2
MaxCalls == 4
Pids == 1..MaxPid

\* Paths: "/a" is absolute, "r" relative; "/w" is a working directory.
PathA == <<"/", "a">>
PathR == <<"r">>
Cwd == <<"/", "w">>

\* Tracee memory: address 1 holds "/a", address 2 holds "r"; address 3 is
\* unmapped and address 0 is the null pointer.
TraceeMem == (1 :> PathA) @@ (2 :> PathR)

\* What the operating system may answer while one stop is handled: the CWD
\* link is unreadable, or readable with canonicalize failing or succeeding.
Os(cwd, canon) == [mem |-> TraceeMem, cwd |-> cwd, canon |-> canon]
OsAnswers == {Os(None, None), Os(Some(Cwd), None), Os(Some(Cwd), Some(PathA))}

\* The program images a tracee may run, as /proc/<pid>/cmdline and
\* /proc/<pid>/environ show them; both reads fail for a PID that is gone.
ProcImage(command, home) == [command |-> command, env |-> {<<"HOME", home>>}]
InitialImage == ProcImage(<<"sh">>, "h0")
ProcImages == {InitialImage, ProcImage(<<"cat">>, "h1")}
UnreadableProc == [command |-> << >>, env |-> {}]

\* Exit statuses and fatal signals of a tracee.
ExitCodes == {0, 3}
Signals == {9}

(***************************************************************************)
(* Registers at a syscall-entry stop: rax holds -ENOSYS.  The syscalls the *)
(* engine ignores but the kernel acts on are fork (57), vfork (58), clone  *)
(* (56), execve (59) and exit_group (231).                                 *)
(***************************************************************************)
Regs(num, rdi, rsi, rdx, r10, r8) ==
  [ orig_rax |-> U(num), rax |-> SignExt(-38),
    rdi |-> rdi, rsi |-> rsi, rdx |-> rdx, r10 |-> r10, r8 |-> r8 ]

ForkCalls == {56, 57, 58}
IsFork(regs) == regs.orig_rax.hi = 0 /\ regs.orig_rax.lo \in ForkCalls
IsExecve(regs) == regs.orig_rax = U(59)
IsExitGroup(regs) == regs.orig_rax = U(231)
IsOpen(regs) == regs.orig_rax \in {U(SYS_OPEN), U(SYS_OPENAT)}

\* The ptrace event the kernel raises for a fork-family syscall.
EventOf(regs) ==
  CASE regs.orig_rax = U(57) -> PTRACE_EVENT_FORK
    [] regs.orig_rax = U(58) -> PTRACE_EVENT_VFORK
    [] OTHER -> PTRACE_EVENT_CLONE

\* fd arguments: a descriptor number, -1 sign-extended to 64 bits, and -1
\* zero-extended (0x00000000FFFFFFFF, what "mov r8d, -1" leaves in r8).
Fds == {3, 4}
FdArgs == {U(fd) : fd \in Fds} \cup {U64(-1, -1), U64(0, -1)}
PathArgs == {U(0), U(1), U(2), U(3)}

Call1(num, rdi) == Regs(num, rdi, U(0), U(0), U(0), U(0))
OpenCalls ==
  {Call1(SYS_OPEN, a) : a \in PathArgs} \cup
  {Regs(SYS_OPENAT, SignExt(-100), a, U(0), U(0), U(0)) : a \in PathArgs}
ReadWriteCalls ==
  {Call1(n, fd) : n \in ReadClass \cup WriteClass, fd \in FdArgs}
MmapCalls ==
  {Regs(SYS_MMAP, U(0), U(0), U(prot), U(flags), fd) :
     prot \in 0..3, flags \in 0..3, fd \in FdArgs}
CloseCalls == {Call1(SYS_CLOSE, fd) : fd \in FdArgs}
ForkCall(n) == Call1(n, U(0))
ExecveCall == Call1(59, U(0))
ExitCalls == {Call1(231, U(c)) : c \in ExitCodes}

\* Return values the kernel may leave in rax at the exit stop.
Returns(regs) ==
  IF IsOpen(regs) THEN {U(fd) : fd \in Fds} \cup {SignExt(-2)}
  ELSE {U(0), SignExt(-9)}

(***************************************************************************)
(* State.  state, exit_code and output are the tracer's; pc is the place   *)
(* run_tracer has reached.  tracee is the kernel's record of each PID and  *)
(* kernel its PID allocator: pid_max, the PID it handed out last, and the  *)
(* numbers of forks and of syscalls the tree may still make.  last is      *)
(* the wait status the loop handled last; root_status is how the initially *)
(* launched child terminated; cwd_unreadable records that resolve_path     *)
(* found a relative path's CWD link unreadable.                            *)
(***************************************************************************)
VARIABLES state, exit_code, pc, output, tracee, kernel, last, root_status, cwd_unreadable

vars == <<state, exit_code, pc, output, tracee, kernel, last, root_status, cwd_unreadable>>

RootPid == 1

\* The kernel's record of a PID: its phase, the program image it runs, the
\* registers of the syscall it is in, the child a fork in progress created
\* whose event is not reported yet, and whether the event of the syscall in
\* progress (fork, exec) was reported.
Tracee(phase, image, call) ==
  [phase |-> phase, image |-> image, call |-> call, child |-> None, evdone |-> FALSE]
NoTracee == Tracee("none", UnreadableProc, None)
Running(image) == Tracee("user", image, None)
Newborn(image) == Tracee("new", image, None)
Killed(image) == Tracee("killed", image, None)
InCall(image, regs) == Tracee("insys", image, Some(regs))

\* PIDs are handed out cyclically: the first free one after the last.
FreePids == {p \in 1..kernel.pid_max : tracee[p].phase = "none"}
Distance(p) == (p + kernel.pid_max - kernel.last_pid - 1) % kernel.pid_max
AllocPid == CHOOSE p \in FreePids : \A q \in FreePids : Distance(p) <= Distance(q)
Allocated(pid) == [kernel EXCEPT !.last_pid = pid]

Event(status, pid, aux) == [status |-> status, pid |-> pid, aux |-> aux]

InitWith(pid_maxes, forks, calls) ==
  /\ state = TracerState_new
  /\ exit_code = 0
  /\ pc = "start"
  /\ output = << >>
  /\ tracee = [p \in Pids |-> NoTracee]
  /\ kernel \in {[pid_max |-> m, last_pid |-> RootPid, forks_left |-> forks, calls_left |-> calls] :
                   m \in pid_maxes}
  /\ last = Event("none", 0, None)
  /\ root_status = None
  /\ cwd_unreadable = FALSE

(***************************************************************************)
(* run_tracer up to the dispatch loop: fork, the initial waitpid on the    *)
(* child, setup_ptrace and the capture of the root ProcessInfo.            *)
(***************************************************************************)
Start(fork_ok, stopped) ==
  /\ pc = "start"
  /\ IF ~fork_ok
     THEN /\ pc' = "failed"
          /\ exit_code' = 1
          /\ UNCHANGED <<state, tracee>>
     ELSE LET inserted == [state EXCEPT !.active_pids = @ \cup {RootPid}]
          IN  IF stopped
              THEN /\ state' = capture_process_info(RootPid, inserted, None, InitialImage)
                   /\ tracee' = [tracee EXCEPT ![RootPid] = Running(InitialImage)]
                   /\ pc' = "loop"
                   /\ UNCHANGED exit_code
              ELSE /\ state' = inserted
                   /\ pc' = "failed"
                   /\ exit_code' = 1
                   /\ UNCHANGED tracee
  /\ last' = Event("start", RootPid, None)
  /\ UNCHANGED <<output, kernel, root_status, cwd_unreadable>>

InLoop == pc = "loop" /\ state.active_pids # {}

\* The path pointer a syscall hands to resolve_path at its entry.
PathPtr(regs) ==
  CASE regs.orig_rax = U(SYS_OPEN) -> regs.rdi
    [] regs.orig_rax \in {U(SYS_OPENAT), U(SYS_RENAME)} -> regs.rsi
    [] regs.orig_rax \in {U(SYS_RENAMEAT), U(SYS_RENAMEAT2)} -> regs.r10
    [] OTHER -> U(0)

\* The answers that matter to the handling of a stop with these registers.
OsFor(regs) ==
  LET path == read_string_from_tracee(TraceeMem, PathPtr(regs))
  IN  IF IsSome(path) /\ ~starts_with_slash(Unwrap(path))
      THEN OsAnswers ELSE {Os(Some(Cwd), None)}

\* The stop is handled as an entry and resolve_path finds the CWD unreadable.
FindsCwdUnreadable(pid, regs, os) ==
  LET path == read_string_from_tracee(os.mem, PathPtr(regs))
  IN  /\ ~(pid \in DOMAIN state.in_syscall /\ state.in_syscall[pid])
      /\ IsSome(path)
      /\ ~starts_with_slash(Unwrap(path))
      /\ ~IsSome(os.cwd)

(***************************************************************************)
(* WaitStatus::PtraceSyscall(pid), trace_loop's first arm.  The kernel     *)
(* reports the entry stop of a syscall a running tracee makes, or the exit *)
(* stop of the syscall it is in.  getregs fails when the tracee was killed *)
(* between the stop and the request; the kernel then reports its death.    *)
(***************************************************************************)
PtraceSyscall(pid, regs, getregs_ok, os) ==
  /\ state' = handle_syscall(pid, IF getregs_ok THEN Some(regs) ELSE None, state, os)
  /\ last' = Event("PtraceSyscall", pid, IF getregs_ok THEN Some(regs.rax) ELSE None)
  /\ cwd_unreadable' =
       (cwd_unreadable \/ (getregs_ok /\ FindsCwdUnreadable(pid, regs, os)))
  /\ UNCHANGED <<exit_code, pc, output, root_status>>

SyscallEntryStop(pid, regs, getregs_ok) ==
  /\ InLoop
  /\ tracee[pid].phase = "user"
  /\ IsFork(regs) => kernel.forks_left > 0
  /\ kernel.calls_left > 0
  /\ tracee' = [tracee EXCEPT ![pid] = IF getregs_ok THEN InCall(@.image, regs)
                                       ELSE Killed(@.image)]
  /\ kernel' = [kernel EXCEPT !.calls_left = @ - 1,
                              !.forks_left = IF IsFork(regs) THEN @ - 1 ELSE @]
  /\ \E os \in OsFor(regs) : PtraceSyscall(pid, regs, getregs_ok, os)

\* A fork-family syscall returns once its event was reported, or fails
\* without a child; execve likewise; exit_group never returns.
MayReturn(t, ret) ==
  LET regs == Unwrap(t.call)
  IN  CASE IsExitGroup(regs) -> FALSE
        [] IsFork(regs) -> IF t.evdone THEN ret = U(0)
                           ELSE ~IsSome(t.child) /\ ret = SignExt(-9)
        [] IsExecve(regs) -> IF t.evdone THEN ret = U(0) ELSE ret = SignExt(-9)
        [] OTHER -> TRUE

SyscallExitStop(pid, getregs_ok) ==
  /\ InLoop
  /\ tracee[pid].phase = "insys"
  /\ tracee' = [tracee EXCEPT ![pid] = IF getregs_ok THEN Running(@.image)
                                       ELSE Killed(@.image)]
  /\ UNCHANGED kernel
  /\ LET call == Unwrap(tracee[pid].call)
     IN  \E ret \in Returns(call), os \in OsFor(call) :
           /\ MayReturn(tracee[pid], ret)
           /\ PtraceSyscall(pid, [call EXCEPT !.rax = ret], getregs_ok, os)

(***************************************************************************)
(* WaitStatus::PtraceEvent(pid, _, event), the second arm.                 *)
(***************************************************************************)
PtraceEvent(pid, event, getevent, proc) ==
  /\ state' = handle_ptrace_event(pid, event, state, getevent, proc)
  /\ last' = Event("PtraceEvent", pid, getevent)
  /\ UNCHANGED <<exit_code, pc, output, root_status, cwd_unreadable>>

\* The child of a fork: the one whose first stop was already reported, or a
\* new process.  getevent fails when the parent was killed between the stop
\* and the request.
ForkEvent(pid, getevent_ok) ==
  /\ InLoop
  /\ tracee[pid].phase = "insys"
  /\ IsFork(Unwrap(tracee[pid].call))
  /\ ~tracee[pid].evdone
  /\ LET born == ~IsSome(tracee[pid].child)
         child == IF born THEN AllocPid ELSE Unwrap(tracee[pid].child)
         after == IF getevent_ok
                  THEN [tracee[pid] EXCEPT !.evdone = TRUE, !.child = None]
                  ELSE Killed(tracee[pid].image)
     IN  /\ born => FreePids # {}
         /\ tracee' = IF born
                      THEN [tracee EXCEPT ![pid] = after,
                                          ![child] = Newborn(tracee[pid].image)]
                      ELSE [tracee EXCEPT ![pid] = after]
         /\ kernel' = IF born THEN Allocated(child) ELSE kernel
         /\ PtraceEvent(pid, EventOf(Unwrap(tracee[pid].call)),
                        IF getevent_ok THEN Some(child) ELSE None,
                        tracee'[child].image)

\* At the exec event the tracee runs the new image already.
ExecEvent(pid, image) ==
  /\ InLoop
  /\ tracee[pid].phase = "insys"
  /\ IsExecve(Unwrap(tracee[pid].call))
  /\ ~tracee[pid].evdone
  /\ tracee' = [tracee EXCEPT ![pid].evdone = TRUE, ![pid].image = image]
  /\ UNCHANGED kernel
  /\ PtraceEvent(pid, PTRACE_EVENT_EXEC, None, image)

(***************************************************************************)
(* WaitStatus::Exited(pid, code) and WaitStatus::Signaled(pid, sig, _).    *)
(***************************************************************************)
IsRoot(pid) ==
  IF pid \in DOMAIN state.processes
  THEN state.processes[pid].parent_pid = None
  ELSE FALSE

Terminated(pid, status, code) ==
  /\ state' = [state EXCEPT !.active_pids = @ \ {pid}]
  /\ exit_code' = IF IsRoot(pid) THEN code ELSE exit_code
  /\ tracee' = [tracee EXCEPT ![pid] = NoTracee]
  /\ root_status' = IF pid = RootPid /\ root_status = None
                    THEN Some(code) ELSE root_status
  /\ last' = Event(status, pid, Some(code))
  /\ UNCHANGED <<pc, output, kernel, cwd_unreadable>>

Exited(pid) ==
  /\ InLoop
  /\ tracee[pid].phase = "insys"
  /\ IsExitGroup(Unwrap(tracee[pid].call))
  /\ Terminated(pid, "Exited", as_i32(Unwrap(tracee[pid].call).rdi))

Signaled(pid, sig) ==
  /\ InLoop
  /\ tracee[pid].phase # "none"
  /\ tracee[pid].phase = "killed" => sig = 9
  /\ Terminated(pid, "Signaled", 128 + sig)

(***************************************************************************)
(* WaitStatus::Stopped(pid, sig): the signal is passed through.  A new     *)
(* child's first stop (SIGSTOP) is reported after its parent's fork event, *)
(* or before it.                                                           *)
(***************************************************************************)
Stopped(pid, sig) ==
  /\ last' = Event("Stopped", pid, Some(sig))
  /\ UNCHANGED <<state, exit_code, pc, output, root_status, cwd_unreadable>>

ChildFirstStop(pid) ==
  /\ InLoop
  /\ tracee[pid].phase = "new"
  /\ tracee' = [tracee EXCEPT ![pid] = Running(@.image)]
  /\ UNCHANGED kernel
  /\ Stopped(pid, 19)

ChildStopBeforeForkEvent(parent) ==
  /\ InLoop
  /\ tracee[parent].phase = "insys"
  /\ IsFork(Unwrap(tracee[parent].call))
  /\ ~tracee[parent].evdone
  /\ ~IsSome(tracee[parent].child)
  /\ FreePids # {}
  /\ LET pid == AllocPid
     IN  /\ tracee' = [tracee EXCEPT ![pid] = Running(tracee[parent].image),
                                     ![parent].child = Some(pid)]
         /\ kernel' = Allocated(pid)
         /\ Stopped(pid, 19)

(***************************************************************************)
(* The end of trace_loop: the while condition fails, or waitpid answers    *)
(* ECHILD because the tracer has no child left.                            *)
(***************************************************************************)
LoopEnd ==
  /\ pc = "loop"
  /\ state.active_pids = {}
  /\ pc' = "collect"
  /\ last' = Event("end", 0, None)
  /\ UNCHANGED <<state, exit_code, output, tracee, kernel, root_status, cwd_unreadable>>

Echild ==
  /\ InLoop
  /\ \A p \in Pids : tracee[p].phase = "none"
  /\ pc' = "collect"
  /\ last' = Event("ECHILD", 0, None)
  /\ UNCHANGED <<state, exit_code, output, tracee, kernel, root_status, cwd_unreadable>>

(***************************************************************************)
(* run_tracer after the loop: env_accessed is the env of the first value   *)
(* the process table's iterator yields (HashMap order is unspecified), and *)
(* the output is written when the file can be created.                     *)
(***************************************************************************)
FirstValueEnvs(processes) ==
  IF DOMAIN processes = {} THEN {{}}
  ELSE {p.env : p \in MapValues(processes)}

TracerOutput(env_accessed) ==
  [ processes     |-> MapValues(state.processes),
    opened_files  |-> state.opened_files,
    read_files    |-> state.read_files,
    written_files |-> state.written_files,
    env_accessed  |-> env_accessed ]

WriteOutput(create_ok) ==
  /\ pc = "collect"
  /\ \E env_accessed \in FirstValueEnvs(state.processes) :
       output' = IF create_ok THEN Append(output, TracerOutput(env_accessed))
                 ELSE output
  /\ pc' = "done"
  /\ last' = Event("output", 0, None)
  /\ UNCHANGED <<state, exit_code, tracee, kernel, root_status, cwd_unreadable>>

(***************************************************************************)
(* One iteration of the tracer, the tracees making the syscalls of calls.  *)
(***************************************************************************)
NextWith(calls) ==
  \/ \E fork_ok \in BOOLEAN, stopped \in BOOLEAN : Start(fork_ok, stopped)
  \/ \E pid \in Pids, regs \in calls, ok \in BOOLEAN : SyscallEntryStop(pid, regs, ok)
  \/ \E pid \in Pids, ok \in BOOLEAN : SyscallExitStop(pid, ok)
  \/ \E pid \in Pids, ok \in BOOLEAN : ForkEvent(pid, ok)
  \/ \E pid \in Pids, image \in ProcImages : ExecEvent(pid, image)
  \/ \E pid \in Pids : Exited(pid)
  \/ \E pid \in Pids, sig \in Signals : Signaled(pid, sig)
  \/ \E pid \in Pids : ChildFirstStop(pid)
  \/ \E parent \in Pids : ChildStopBeforeForkEvent(parent)
  \/ LoopEnd
  \/ Echild
  \/ \E create_ok \in BOOLEAN : WriteOutput(create_ok)

(***************************************************************************)
(* Spec: the dispatch loop over a process tree that forks, execs, exits    *)
(* and is killed.                                                          *)
(***************************************************************************)
LoopCalls == {ForkCall(57), ExecveCall} \cup ExitCalls
Init == InitWith((RootPid + 1)..MaxPid, MaxForks, MaxCalls)
Next == NextWith(LoopCalls)
Spec == Init /\ [][Next]_vars

(***************************************************************************)
(* SpecEngine: one tracee that opens, reads, writes, maps and closes       *)
(* files and exits or is killed.  Its dispatch loop has no ptrace event    *)
(* and no stop of a second tracee.                                         *)
(***************************************************************************)
EngineCalls ==
  OpenCalls \cup ReadWriteCalls \cup MmapCalls \cup CloseCalls \cup ExitCalls

InitEngine == InitWith({MaxPid}, MaxForks, MaxCalls)

NextEngine ==
  \/ \E fork_ok \in BOOLEAN, stopped \in BOOLEAN : Start(fork_ok, stopped)
  \/ \E pid \in Pids, regs \in EngineCalls, ok \in BOOLEAN :
       SyscallEntryStop(pid, regs, ok)
  \/ \E pid \in Pids, ok \in BOOLEAN : SyscallExitStop(pid, ok)
  \/ \E pid \in Pids : Exited(pid)
  \/ \E pid \in Pids, sig \in Signals : Signaled(pid, sig)
  \/ LoopEnd
  \/ \E create_ok \in BOOLEAN : WriteOutput(create_ok)

SpecEngine == InitEngine /\ [][NextEngine]_vars

(***************************************************************************)
(* SpecFork: a root and one descendant at a time (the kernel has two PIDs  *)
(* and reuses the one a terminated tracee leaves) that open "/a" and "r",  *)
(* map fd 3 shared for reading and writing, clone, exec and exit.          *)
(***************************************************************************)
OpenatCall(addr) == Regs(SYS_OPENAT, SignExt(-100), U(addr), U(0), U(0), U(0))
MmapSharedCall == Regs(SYS_MMAP, U(0), U(0), U(3), U(1), U(3))
ForkFileCalls ==
  {OpenatCall(1), OpenatCall(2), MmapSharedCall, ForkCall(56), ExecveCall,
   Call1(231, U(0))}

InitFork == InitWith({RootPid + 1}, MaxForks, MaxCalls)
NextFork == NextWith(ForkFileCalls)
SpecFork == InitFork /\ [][NextFork]_vars

(***************************************************************************)
(* SpecTransfer: one tracee that opens "/a" and "r", renames, and moves    *)
(* data between descriptors with sendfile and copy_file_range.             *)
(***************************************************************************)
RenameCalls ==
  {Regs(SYS_RENAME, U(old), U(new), U(0), U(0), U(0)) : old \in 1..3, new \in 1..3} \cup
  {Regs(n, SignExt(-100), U(old), SignExt(-100), U(new), U(0)) :
     n \in {SYS_RENAMEAT, SYS_RENAMEAT2}, old \in 1..3, new \in 1..3}

TransferFds == {U(3), U(4), SignExt(-1)}
TransferCalls ==
  {Regs(SYS_SENDFILE, out_fd, in_fd, U(0), U(0), U(0)) :
     out_fd \in TransferFds, in_fd \in TransferFds} \cup
  {Regs(SYS_COPY_FILE_RANGE, in_fd, U(0), U(0), U(0), out_fd) :
     out_fd \in TransferFds, in_fd \in TransferFds}

TransferSpecCalls ==
  {OpenatCall(1), OpenatCall(2), Call1(231, U(0))} \cup RenameCalls \cup TransferCalls

NextTransfer ==
  \/ \E fork_ok \in BOOLEAN, stopped \in BOOLEAN : Start(fork_ok, stopped)
  \/ \E pid \in Pids, regs \in TransferSpecCalls, ok \in BOOLEAN :
       SyscallEntryStop(pid, regs, ok)
  \/ \E pid \in Pids, ok \in BOOLEAN : SyscallExitStop(pid, ok)
  \/ \E pid \in Pids : Exited(pid)
  \/ \E pid \in Pids, sig \in Signals : Signaled(pid, sig)
  \/ LoopEnd
  \/ \E create_ok \in BOOLEAN : WriteOutput(create_ok)

SpecTransfer == InitEngine /\ [][NextTransfer]_vars


(***************************************************************************)
(* SpecReuse: two PID numbers that are handed out again and again.  The    *)
(* tracees fork, open "/a", open a path that cannot be read and read fd 3; *)
(* any of them may be killed at any time.                                  *)
(***************************************************************************)
ReuseForks == MaxForks + 1
ReuseCalls == MaxCalls + 2
ReuseSpecCalls ==
  {ForkCall(57), OpenatCall(1), OpenatCall(3), Call1(SYS_READ, U(3))}

InitReuse == InitWith({RootPid + 1}, ReuseForks, ReuseCalls)

NextReuse ==
  \/ \E fork_ok \in BOOLEAN, stopped \in BOOLEAN : Start(fork_ok, stopped)
  \/ \E pid \in Pids, regs \in ReuseSpecCalls, ok \in BOOLEAN :
       SyscallEntryStop(pid, regs, ok)
  \/ \E pid \in Pids, ok \in BOOLEAN : SyscallExitStop(pid, ok)
  \/ \E pid \in Pids, ok \in BOOLEAN : ForkEvent(pid, ok)
  \/ \E pid \in Pids, sig \in Signals : Signaled(pid, sig)
  \/ \E pid \in Pids : ChildFirstStop(pid)
  \/ \E parent \in Pids : ChildStopBeforeForkEvent(parent)
  \/ LoopEnd
  \/ Echild
  \/ \E create_ok \in BOOLEAN : WriteOutput(create_ok)

SpecReuse == InitReuse /\ [][NextReuse]_vars

(***************************************************************************)
(* SpecInherit: SpecFork without execve.  A root and one descendant at a   *)
(* time open "/a" and "r", map fd 3 shared for reading and writing, clone  *)
(* and exit or are killed.                                                 *)
(***************************************************************************)
InheritCalls ==
  {OpenatCall(1), OpenatCall(2), MmapSharedCall, ForkCall(56), Call1(231, U(0))}

NextInherit ==
  \/ \E fork_ok \in BOOLEAN, stopped \in BOOLEAN : Start(fork_ok, stopped)
  \/ \E pid \in Pids, regs \in InheritCalls, ok \in BOOLEAN :
       SyscallEntryStop(pid, regs, ok)
  \/ \E pid \in Pids, ok \in BOOLEAN : SyscallExitStop(pid, ok)
  \/ \E pid \in Pids, ok \in BOOLEAN : ForkEvent(pid, ok)
  \/ \E pid \in Pids : Exited(pid)
  \/ \E pid \in Pids, sig \in Signals : Signaled(pid, sig)
  \/ \E pid \in Pids : ChildFirstStop(pid)
  \/ \E parent \in Pids : ChildStopBeforeForkEvent(parent)
  \/ LoopEnd
  \/ Echild
  \/ \E create_ok \in BOOLEAN : WriteOutput(create_ok)

SpecInherit == InitFork /\ [][NextInherit]_vars
(***************************************************************************)
(* C1: the exit code the dispatch loop returns mirrors the root tracee:    *)
(* once the loop has ended and the initially launched child has            *)
(* terminated, exit_code is the root's exit status, or 128 + the signal    *)
(* that killed it, whatever its descendants did.                           *)
(***************************************************************************)
C1_ExitCodeMirrorsRoot ==
  (pc \in {"collect", "done"} /\ IsSome(root_status))
    => exit_code = Unwrap(root_status)

(***************************************************************************)
(* C2: env_accessed of every output written is the env of the ProcessInfo  *)
(* whose parent_pid is absent.                                             *)
(***************************************************************************)
C2_EnvAccessedIsRootEnv ==
  \A i \in 1..Len(output) :
    \E p \in output[i].processes :
      p.parent_pid = None /\ output[i].env_accessed = p.env

(***************************************************************************)
(* C3: after startup exactly one entry of the process table has an absent  *)
(* parent_pid, and it is the initially launched child.                     *)
(***************************************************************************)
Roots == {p \in DOMAIN state.processes : state.processes[p].parent_pid = None}

C3_RootUnique == pc \in {"loop", "collect", "done"} => Roots = {RootPid}

(***************************************************************************)
(* C9: no syscall stop of a PID is classified while the PID has no         *)
(* ProcessInfo entry: every PID with an in-syscall flag is in the process  *)
(* table (the table never loses an entry).                                 *)
(***************************************************************************)
C9_ProcessInfoBeforeSyscalls ==
  \A p \in DOMAIN state.in_syscall : p \in DOMAIN state.processes

(***************************************************************************)
(* What the claims below read off a step: the in-syscall flag of a PID as  *)
(* handle_syscall reads it, the (fd, path) rows of a PID in the fd table,  *)
(* and the kind of the stop the step handled.                              *)
(***************************************************************************)
Flag(pid) == IF pid \in DOMAIN state.in_syscall THEN state.in_syscall[pid] ELSE FALSE

Rows(fd_table, pid) ==
  {<<k[2], fd_table[k]>> : k \in {x \in DOMAIN fd_table : x[1] = pid}}

\* The step handled a syscall stop of pid, and its registers were read.
SyscallStop(pid) == last'.status = "PtraceSyscall" /\ last'.pid = pid
RegsRead == IsSome(last'.aux)

\* The step handled a fork, vfork or clone event and learned the child.
ForkHandled == last'.status = "PtraceEvent" /\ IsSome(last'.aux)

(***************************************************************************)
(* C4: right after a fork, vfork or clone event from parent P to child C   *)
(* is handled, the (fd, path) rows of C are the rows P had at the event,   *)
(* also when C had rows before it.                                         *)
(***************************************************************************)
C4_ForkInheritance ==
  [][ForkHandled =>
      Rows(state'.fd_table, Unwrap(last'.aux)) = Rows(state.fd_table, last'.pid)]_vars

(***************************************************************************)
(* C5: at the entry stop of mmap, with fd = r8 read as a signed 64-bit     *)
(* value: fd < 0 adds nothing to read_files or written_files; an fd the    *)
(* fd table knows adds its path to read_files exactly when bit 0 of prot   *)
(* is set and to written_files exactly when bit 1 of prot and bit 0 of     *)
(* flags are both set.                                                     *)
(***************************************************************************)
MmapEntry(pid) ==
  /\ SyscallStop(pid) /\ RegsRead /\ ~Flag(pid)
  /\ tracee'[pid].phase = "insys"
  /\ Unwrap(tracee'[pid].call).orig_rax = U(SYS_MMAP)

Bit(r, i) == ((r.lo \div (2 ^ i)) % 2) = 1

C5_MmapStep(pid) ==
  LET regs == Unwrap(tracee'[pid].call)
      key == <<pid, regs.r8.lo>>
      path == state.fd_table[key]
  IN  IF regs.r8.hi < 0
      THEN /\ state'.read_files = state.read_files
           /\ state'.written_files = state.written_files
      ELSE key \in DOMAIN state.fd_table =>
             /\ state'.read_files =
                  state.read_files \cup (IF Bit(regs.rdx, 0) THEN {path} ELSE {})
             /\ state'.written_files =
                  state.written_files \cup
                    (IF Bit(regs.rdx, 1) /\ Bit(regs.r10, 0) THEN {path} ELSE {})

C5_MmapClassification ==
  [][\A pid \in Pids : MmapEntry(pid) => C5_MmapStep(pid)]_vars

\* A private writable mapping of a known fd was classified: its path is
\* read and not written.
C5_Witness ==
  \E pid \in Pids :
    /\ tracee[pid].phase = "insys"
    /\ Flag(pid)
    /\ LET regs == Unwrap(tracee[pid].call)
       IN  /\ regs.orig_rax = U(SYS_MMAP)
           /\ regs.rdx = U(3) /\ regs.r10 = U(2) /\ regs.r8 = U(3)
           /\ <<pid, 3>> \in DOMAIN state.fd_table
           /\ state.fd_table[<<pid, 3>>] \in state.read_files
           /\ state.fd_table[<<pid, 3>>] \notin state.written_files

(***************************************************************************)
(* C6: every path of the fd table begins with "/".  As the code has it,    *)
(* this holds as long as no open or openat with a relative path found the  *)
(* tracee's CWD link unreadable; resolve_path then leaves the path as it   *)
(* is and the exit stop stores it.                                         *)
(***************************************************************************)
C6_FdTableAbsolute ==
  \A k \in DOMAIN state.fd_table : starts_with_slash(state.fd_table[k])

C6_FdTableAbsoluteWhenCwdReadable == ~cwd_unreadable => C6_FdTableAbsolute

\* A descendant inherited the row of a relative path that was resolved.
C6_Witness ==
  /\ ~cwd_unreadable
  /\ \E k \in DOMAIN state.fd_table :
       /\ k[1] # RootPid
       /\ state.fd_table[k] = Cwd \o PathR
       /\ <<RootPid, k[2]>> \in DOMAIN state.fd_table

(***************************************************************************)
(* C7: every syscall stop of a PID toggles its in-syscall flag, the stops  *)
(* whose register read fails included.                                     *)
(***************************************************************************)
C7_FlagTogglesOnEveryStop ==
  [][\A pid \in Pids : SyscallStop(pid) => Flag(pid)' = ~Flag(pid)]_vars

(***************************************************************************)
(* C8: at the exit stop of open or openat of PID p returning r: with       *)
(* r >= 0 and a pending open, (p, r) -> the pending path enters the fd     *)
(* table and the path enters opened_files; with r < 0 neither changes; p   *)
(* has no pending open afterwards.  No other step adds to opened_files.    *)
(***************************************************************************)
OpenExit(pid) ==
  /\ SyscallStop(pid) /\ RegsRead /\ Flag(pid)
  /\ tracee[pid].phase = "insys"
  /\ IsOpen(Unwrap(tracee[pid].call))

C8_OpenExitStep(pid) ==
  LET r == Unwrap(last'.aux)
      pending == state.pending_opens
  IN  /\ (r.hi >= 0 /\ pid \in DOMAIN pending) =>
           /\ state'.fd_table = MapInsert(state.fd_table, <<pid, r.lo>>, pending[pid][1])
           /\ state'.opened_files = state.opened_files \cup {pending[pid][1]}
      /\ r.hi < 0 =>
           /\ state'.fd_table = state.fd_table
           /\ state'.opened_files = state.opened_files
      /\ pid \notin DOMAIN state'.pending_opens

C10_Monotonic ==
  [][/\ state.opened_files \subseteq state'.opened_files
     /\ state.read_files \subseteq state'.read_files
     /\ state.written_files \subseteq state'.written_files]_vars

\* The three sets hold paths while a descendant's termination is handled.
C10_Witness ==
  /\ last.status \in {"Exited", "Signaled"}
  /\ last.pid # RootPid
  /\ state.opened_files # {}
  /\ state.read_files # {}
  /\ state.written_files # {}

(***************************************************************************)
(* What the claims about one syscall's entry read off the step: the stop   *)
(* is handled as an entry of the syscalls nums, with these registers; and  *)
(* the path the fd table holds for a descriptor of a PID, if any.          *)
(***************************************************************************)
EntryOf(pid, nums) ==
  /\ SyscallStop(pid) /\ RegsRead /\ ~Flag(pid)
  /\ tracee'[pid].phase = "insys"
  /\ Unwrap(tracee'[pid].call).orig_rax \in {U(n) : n \in nums}

EntryRegs(pid) == Unwrap(tracee'[pid].call)

PathOf(pid, fd) ==
  IF <<pid, fd>> \in DOMAIN state.fd_table THEN {state.fd_table[<<pid, fd>>]} ELSE {}

(***************************************************************************)
(* C11: the entry stop of rename (newpath in rsi), renameat or renameat2   *)
(* (newpath in r10) with a readable destination string adds the resolved   *)
(* destination to written_files and nothing else: read_files and           *)
(* opened_files keep their value and no second path enters written_files.  *)
(***************************************************************************)
C11_RenameStep(pid) ==
  LET regs == EntryRegs(pid)
      ptr == IF regs.orig_rax = U(SYS_RENAME) THEN regs.rsi ELSE regs.r10
      newpath == read_string_from_tracee(TraceeMem, ptr)
  IN  IsSome(newpath) =>
        /\ \E os \in OsAnswers :
             state'.written_files =
               state.written_files \cup {resolve_path(Unwrap(newpath), os)}
        /\ state'.read_files = state.read_files
        /\ state'.opened_files = state.opened_files
        /\ state'.fd_table = state.fd_table

C11_RenameDestination ==
  [][\A pid \in Pids :
       EntryOf(pid, {SYS_RENAME, SYS_RENAMEAT, SYS_RENAMEAT2}) => C11_RenameStep(pid)]_vars

\* renameat of "r" to "/a" was classified: "/a" is written, nothing is read.
C11_Witness ==
  /\ tracee[RootPid].phase = "insys"
  /\ Flag(RootPid)
  /\ LET regs == Unwrap(tracee[RootPid].call)
     IN  regs.orig_rax = U(SYS_RENAMEAT) /\ regs.rsi = U(2) /\ regs.r10 = U(1)
  /\ state.written_files = {PathA}
  /\ state.read_files = {}
  /\ state.opened_files = {}

(***************************************************************************)
(* C12: the entry stop of sendfile (out_fd in rdi, in_fd in rsi) adds the  *)
(* path of in_fd to read_files and the path of out_fd to written_files;    *)
(* the entry stop of copy_file_range (fd_in in rdi, fd_out in r8) adds the *)
(* path of fd_in to read_files and the path of fd_out to written_files.    *)
(* Each side is recorded when its fd is known, whatever the other is, and  *)
(* nothing else is added.                                                  *)
(***************************************************************************)
C12_TransferStep(pid) ==
  LET regs == EntryRegs(pid)
      in_fd == IF regs.orig_rax = U(SYS_SENDFILE) THEN regs.rsi.lo ELSE regs.rdi.lo
      out_fd == IF regs.orig_rax = U(SYS_SENDFILE) THEN regs.rdi.lo ELSE regs.r8.lo
  IN  /\ state'.read_files = state.read_files \cup PathOf(pid, in_fd)
      /\ state'.written_files = state.written_files \cup PathOf(pid, out_fd)
      /\ state'.opened_files = state.opened_files
      /\ state'.fd_table = state.fd_table

C12_TransferDirection ==
  [][\A pid \in Pids :
       EntryOf(pid, {SYS_SENDFILE, SYS_COPY_FILE_RANGE}) => C12_TransferStep(pid)]_vars

\* sendfile from fd 4 ("r" resolved) to fd 3 ("/a") was classified.
C12_Witness ==
  /\ tracee[RootPid].phase = "insys"
  /\ Flag(RootPid)
  /\ LET regs == Unwrap(tracee[RootPid].call)
     IN  regs.orig_rax = U(SYS_SENDFILE) /\ regs.rdi = U(3) /\ regs.rsi = U(4)
  /\ state.fd_table = (<<RootPid, 3>> :> PathA) @@ (<<RootPid, 4>> :> (Cwd \o PathR))
  /\ state.read_files = {Cwd \o PathR}
  /\ state.written_files = {PathA}

(***************************************************************************)
(* C13: the dispatch loop ends only when every tracee has terminated, and  *)
(* with an empty active-PID set: once trace_loop has returned no PID is    *)
(* alive and active_pids is empty.  The loop does end when every stop is   *)
(* eventually delivered (SpecLive, C13_LoopTerminates).                    *)
(***************************************************************************)
C13_LoopEndsWhenAllTerminated ==
  pc \in {"collect", "done"} =>
    /\ \A p \in Pids : tracee[p].phase = "none"
    /\ state.active_pids = {}

\* Every stop the kernel has to report is reported in the end.
SpecLive == Spec /\ WF_vars(Next)

C13_LoopTerminates == <>(pc \in {"collect", "done", "failed"})

(***************************************************************************)
(* C14: an exec event for PID p re-snapshots the ProcessInfo of p and      *)
(* keeps the parent PID p was created with: p has a ProcessInfo when the   *)
(* event is handled (the root's from startup, a descendant's from its      *)
(* parent's fork event) and the event leaves its parent_pid as it was.     *)
(***************************************************************************)
ExecHandled(pid) ==
  /\ last'.status = "PtraceEvent" /\ last'.pid = pid
  /\ tracee[pid].phase = "insys"
  /\ IsExecve(Unwrap(tracee[pid].call))

C14_ExecKeepsParent ==
  [][\A pid \in Pids :
       ExecHandled(pid) =>
         /\ pid \in DOMAIN state.processes
         /\ state'.processes[pid].parent_pid = state.processes[pid].parent_pid]_vars

(***************************************************************************)
(* C15: a run whose fork fails or whose initial wait is not a stop returns *)
(* 1 and writes no output; every other run writes the output exactly once, *)
(* after the dispatch loop has ended: nothing is written before run_tracer *)
(* finishes, and when it has finished exactly one output was written.      *)
(***************************************************************************)
C15_OutputWrittenOnce ==
  /\ pc = "failed" => exit_code = 1 /\ output = << >>
  /\ pc \in {"start", "loop", "collect"} => output = << >>
  /\ pc = "done" => Len(output) = 1

(***************************************************************************)
(* C16: effects are attributed at entry.  The entry stop of read, pread64, *)
(* readv, preadv, preadv2 (fd in rdi) puts the path of a known fd into     *)
(* read_files, that of write, pwrite64, writev, pwritev, pwritev2 into     *)
(* written_files, whatever the syscall returns later; a stop handled as an *)
(* exit never changes read_files or written_files, and unless it is the    *)
(* exit of open or openat it changes neither the fd table, opened_files    *)
(* nor the pending opens.                                                  *)
(***************************************************************************)
ExitStop(pid) == SyscallStop(pid) /\ RegsRead /\ Flag(pid)

C16_Step(pid) ==
  /\ EntryOf(pid, ReadClass) =>
       /\ state'.read_files = state.read_files \cup PathOf(pid, EntryRegs(pid).rdi.lo)
       /\ state'.written_files = state.written_files
  /\ EntryOf(pid, WriteClass) =>
       /\ state'.written_files = state.written_files \cup PathOf(pid, EntryRegs(pid).rdi.lo)
       /\ state'.read_files = state.read_files
  /\ ExitStop(pid) =>
       /\ state'.read_files = state.read_files
       /\ state'.written_files = state.written_files
       /\ ~OpenExit(pid) =>
            /\ state'.fd_table = state.fd_table
            /\ state'.opened_files = state.opened_files
            /\ state'.pending_opens = state.pending_opens

C16_EffectsAtEntry == [][\A pid \in Pids : C16_Step(pid)]_vars

\* "/a" was opened and a write on its fd failed: the path stays written.
C16_Witness ==
  /\ last = Event("PtraceSyscall", RootPid, Some(SignExt(-9)))
  /\ ~Flag(RootPid)
  /\ kernel.calls_left = MaxCalls - 2
  /\ state.opened_files = {PathA}
  /\ state.written_files = {PathA}
  /\ state.read_files = {}

(***************************************************************************)
(* C17: dropped events leave no trace.  The entry stop of a read- or       *)
(* write-class call, sendfile, copy_file_range or mmap none of whose       *)
(* descriptors has a row for that PID changes none of opened_files,        *)
(* read_files, written_files and the fd table; and the exit stop of an     *)
(* open or openat whose path argument cannot be read changes neither the   *)
(* fd table nor opened_files, whatever it returns.                         *)
(***************************************************************************)
NoRow(pid, reg) == reg.hi < 0 \/ PathOf(pid, reg.lo) = {}

UnknownFdEntry(pid) ==
  LET regs == EntryRegs(pid)
  IN  \/ EntryOf(pid, ReadClass \cup WriteClass) /\ PathOf(pid, regs.rdi.lo) = {}
      \/ /\ EntryOf(pid, {SYS_SENDFILE})
         /\ PathOf(pid, regs.rdi.lo) = {}
         /\ PathOf(pid, regs.rsi.lo) = {}
      \/ /\ EntryOf(pid, {SYS_COPY_FILE_RANGE})
         /\ PathOf(pid, regs.rdi.lo) = {}
         /\ PathOf(pid, regs.r8.lo) = {}
      \/ EntryOf(pid, {SYS_MMAP}) /\ NoRow(pid, regs.r8)

UnreadableOpenExit(pid) ==
  /\ OpenExit(pid)
  /\ read_string_from_tracee(TraceeMem, PathPtr(Unwrap(tracee[pid].call))) = None

C17_Step(pid) ==
  /\ UnknownFdEntry(pid) =>
       /\ state'.opened_files = state.opened_files
       /\ state'.read_files = state.read_files
       /\ state'.written_files = state.written_files
       /\ state'.fd_table = state.fd_table
  /\ UnreadableOpenExit(pid) =>
       /\ state'.fd_table = state.fd_table
       /\ state'.opened_files = state.opened_files

C17_DroppedEventsLeaveNoTrace == [][\A pid \in Pids : C17_Step(pid)]_vars

(***************************************************************************)
(* C18: fd tables diverge after fork.  A syscall stop of PID p, whether    *)
(* handled as entry or exit and whatever it returns, never changes the     *)
(* fd-table rows, the pending open or the in-syscall flag of another PID;  *)
(* in particular a successful open in the parent or in the child after the *)
(* fork event changes only rows keyed by the PID that opened.              *)
(***************************************************************************)
Entry(map, pid) == IF pid \in DOMAIN map THEN {map[pid]} ELSE {}

C18_Step(p) ==
  SyscallStop(p) =>
    \A q \in Pids \ {p} :
      /\ Rows(state'.fd_table, q) = Rows(state.fd_table, q)
      /\ Entry(state'.pending_opens, q) = Entry(state.pending_opens, q)
      /\ Entry(state'.in_syscall, q) = Entry(state.in_syscall, q)

C18_FdTablesDiverge == [][\A p \in Pids : C18_Step(p)]_vars

\* The child inherited the row of "/a" at the fork event and has just
\* opened once more, as fd 4: the parent still has its one row.
C18_Witness ==
  /\ last = Event("PtraceSyscall", RootPid + 1, Some(U(4)))
  /\ RootPid + 1 \in state.active_pids
  /\ Rows(state.fd_table, RootPid) = {<<3, PathA>>}
  /\ <<3, PathA>> \in Rows(state.fd_table, RootPid + 1)
  /\ Cardinality(Rows(state.fd_table, RootPid + 1)) = 2

(***************************************************************************)
(* C19: fd-table rows are never removed.  Over every step the set of       *)
(* (pid, fd) keys only grows; the entry and the exit stop of close change  *)
(* nothing but the in-syscall flag, whatever close returns; the            *)
(* termination of a process leaves the fd table as it is; a successful     *)
(* open that returns an fd the PID already has a row for replaces the path *)
(* of that row and adds no key; and a read or write on an fd is attributed *)
(* to the path its row holds at that moment, closed or not.                *)
(***************************************************************************)
CloseStop(pid) ==
  /\ SyscallStop(pid) /\ RegsRead
  /\ \/ tracee'[pid].phase = "insys" /\ EntryRegs(pid).orig_rax = U(SYS_CLOSE)
     \/ tracee[pid].phase = "insys" /\ Unwrap(tracee[pid].call).orig_rax = U(SYS_CLOSE)

C19_Step(pid) ==
  /\ CloseStop(pid) => [state' EXCEPT !.in_syscall = state.in_syscall] = state
  /\ (last'.pid = pid /\ last'.status \in {"Exited", "Signaled"}) =>
       state'.fd_table = state.fd_table
  /\ (/\ OpenExit(pid)
      /\ Unwrap(last'.aux).hi >= 0
      /\ pid \in DOMAIN state.pending_opens
      /\ <<pid, Unwrap(last'.aux).lo>> \in DOMAIN state.fd_table) =>
       /\ DOMAIN state'.fd_table = DOMAIN state.fd_table
       /\ state'.fd_table[<<pid, Unwrap(last'.aux).lo>>] = state.pending_opens[pid][1]
  /\ EntryOf(pid, ReadClass) =>
       state'.read_files = state.read_files \cup PathOf(pid, EntryRegs(pid).rdi.lo)
  /\ EntryOf(pid, WriteClass) =>
       state'.written_files = state.written_files \cup PathOf(pid, EntryRegs(pid).rdi.lo)

C19_RowsNeverRemoved ==
  [][/\ DOMAIN state.fd_table \subseteq DOMAIN state'.fd_table
     /\ \A pid \in Pids : C19_Step(pid)]_vars

\* Two opens returned fd 3, the second replaced the path of the first, and
\* the tracee is now inside close(3): the row is still there.
C19_Witness ==
  /\ tracee[RootPid] = InCall(InitialImage, Call1(SYS_CLOSE, U(3)))
  /\ Flag(RootPid)
  /\ DOMAIN state.fd_table = {<<RootPid, 3>>}
  /\ Cardinality(state.opened_files) = 2
  /\ state.fd_table[<<RootPid, 3>>] # PathA

(***************************************************************************)
(* C20: a tracee starts in the attached state.  Whenever a PID enters      *)
(* active_pids, at the initial attach or as the new child of a fork, vfork *)
(* or clone event, its in-syscall flag is false or absent, so that the     *)
(* next syscall stop handled for it is processed as an entry; also when    *)
(* the PID number belonged to an earlier tracee and when stops of the      *)
(* child were handled before the parent's event.                           *)
(***************************************************************************)
C20_StartsAttached ==
  [][\A pid \in Pids :
       (pid \in state'.active_pids /\ pid \notin state.active_pids) =>
         ~(pid \in DOMAIN state'.in_syscall /\ state'.in_syscall[pid])]_vars

(***************************************************************************)
(* C21: a pending open exists for a PID only between the entry of open or  *)
(* openat and the matching exit.  In every reachable state a PID with an   *)
(* entry in pending_opens has its in-syscall flag set, and after a stop    *)
(* handled as the exit of open or openat the PID has no pending open.      *)
(***************************************************************************)
PendingImpliesInSyscall == \A pid \in DOMAIN state.pending_opens : Flag(pid)

\* The stop is handled as an exit and the registers read name open or openat.
HandledAsOpenExit(pid) ==
  /\ ExitStop(pid)
  /\ \/ tracee[pid].phase = "insys" /\ IsOpen(Unwrap(tracee[pid].call))
     \/ tracee'[pid].phase = "insys" /\ IsOpen(EntryRegs(pid))

NoPendingAfterOpenExit ==
  [][\A pid \in Pids :
       HandledAsOpenExit(pid) => pid \notin DOMAIN state'.pending_opens]_vars

C21_PendingOnlyInsideOpen == []PendingImpliesInSyscall /\ NoPendingAfterOpenExit
====
